---- MODULE Spec2Model ----
(***************************************************************************)
(* Model of src/main.py: the Book Search API.                              *)
(*                                                                         *)
(*   map_volume      raw upstream item -> normalized book record           *)
(*   search_books    GET /api/search: one upstream call, normalized items  *)
(*   recommendations GET /api/recommendations: six curated upstream calls  *)
(*                                                                         *)
(* JSON values are tagged records: [t |-> "null"], [t |-> "str", v |-> s], *)
(* [t |-> "num", v |-> n], [t |-> "list", v |-> <<...>>] and               *)
(* [t |-> "rec", v |-> f], f a function from the keys that are present.    *)
(* The upstream service is the environment: every outbound GET is answered *)
(* by a nondeterministically chosen outcome.                               *)
(***************************************************************************)
EXTENDS Integers, Sequences, FiniteSets, TLC

VARIABLES pc, op, input, calls, outcomes, samples, idx, response

vars == <<pc, op, input, calls, outcomes, samples, idx, response>>

----------------------------------------------------------------------------
(* Bounds of the model *)

\* largest number of keys a drawn volumeInfo record holds
MaxKeys == 2

\* longest upstream "items" list drawn for a search
MaxItems == 2

----------------------------------------------------------------------------
(* Program constants *)

GOOGLE_BOOKS_API == "https://www.googleapis.com/books/v1/volumes"

\* timeout=10 of both requests.get calls
TIMEOUT == 10

\* startIndex: int = Query(0, ge=0)
StartIndexDefault == 0
StartIndexGe == 0

\* maxResults: int = Query(20, ge=1, le=40)
MaxResultsDefault == 20
MaxResultsGe == 1
MaxResultsLe == 40

\* params={"q": s["q"], "maxResults": 6}
RecMaxResults == 6

\* if r.status_code == 200
StatusOk == 200

\* (the source writes the fifth title with a non-breaking hyphen, U+2011)
suggestion_sets ==
    << [title |-> "Trending Fiction", q |-> "subject:fiction bestsellers"],
       [title |-> "Personal Growth", q |-> "subject:self-help"],
       [title |-> "Tech & Programming", q |-> "subject:programming OR subject:technology"],
       [title |-> "Business & Strategy", q |-> "subject:business strategy"],
       [title |-> "Sci-Fi Classics", q |-> "subject:science fiction classics"],
       [title |-> "For Kids", q |-> "subject:children"] >>

----------------------------------------------------------------------------
(* JSON values and the Python operations the code applies to them *)

None == [t |-> "null"]
Str(s) == [t |-> "str", v |-> s]
Num(n) == [t |-> "num", v |-> n]
Lst(s) == [t |-> "list", v |-> s]
Dict(f) == [t |-> "rec", v |-> f]

EmptyFn == [k \in {} |-> None]
EmptyDict == Dict(EmptyFn)
EmptyList == Lst(<<>>)

\* f extended with key k bound to value x
Ext(f, k, x) == [y \in (DOMAIN f) \cup {k} |-> IF y = k THEN x ELSE f[y]]

\* dict.get(key, default): the value stored under key, whatever it is (a
\* stored null included); default only when the key is missing.
get(d, key, default) == IF key \in DOMAIN d.v THEN d.v[key] ELSE default

\* bool(x) as Python's "or" tests it
Truthy(x) ==
    CASE x.t = "null" -> FALSE
      [] x.t = "str" -> x.v # ""
      [] x.t = "num" -> x.v # 0
      [] x.t = "list" -> x.v # <<>>
      [] x.t = "rec" -> DOMAIN x.v # {}

\* b or a: the operands exchanged
Or_swapped(a, b) == IF Truthy(b) THEN b ELSE a

\* a or b
Or(a, b) == IF Truthy(a) THEN a ELSE b

\* outcome of a call: a returned value or a raised exception with str(e)
Return(x) == [raised |-> FALSE, val |-> x]
Raise(msg) == [raised |-> TRUE, msg |-> msg]

\* str(e) of the AttributeError raised by x.get(...) when x is no dict
NoGetAttribute(x) ==
    CASE x.t = "null" -> "'NoneType' object has no attribute 'get'"
      [] x.t = "str" -> "'str' object has no attribute 'get'"
      [] x.t = "num" -> "'int' object has no attribute 'get'"
      [] x.t = "list" -> "'list' object has no attribute 'get'"

\* str(e) of the TypeError raised by iterating x when x is null or a number
NotIterable(x) ==
    CASE x.t = "null" -> "'NoneType' object is not iterable"
      [] x.t = "num" -> "'int' object is not iterable"

----------------------------------------------------------------------------
(* map_volume *)

\* the dict map_volume returns, built from the item, its volumeInfo and the
\* imageLinks of that
book_record(item, volume, image_links) ==
    [ id |-> get(item, "id", None),
      title |-> get(volume, "title", None),
      authors |-> get(volume, "authors", EmptyList),
      thumbnail |-> Or(get(image_links, "thumbnail", None),
                       get(image_links, "smallThumbnail", None)),
      publishedDate |-> get(volume, "publishedDate", None),
      description |-> get(volume, "description", None),
      pageCount |-> get(volume, "pageCount", None),
      categories |-> get(volume, "categories", EmptyList),
      language |-> get(volume, "language", None),
      infoLink |-> Or(get(volume, "infoLink", None),
                      get(volume, "canonicalVolumeLink", None)),
      previewLink |-> get(volume, "previewLink", None),
      publisher |-> get(volume, "publisher", None),
      rating |-> get(volume, "averageRating", None),
      ratingsCount |-> get(volume, "ratingsCount", None) ]

\* map_volume reading item["volumeInfo"]: a missing key is a KeyError
map_volume_subscript(item) ==
    IF item.t # "rec" THEN Raise(NoGetAttribute(item))
    ELSE IF "volumeInfo" \notin DOMAIN item.v THEN Raise("'volumeInfo'")
    ELSE LET volume == item.v["volumeInfo"] IN
    IF volume.t # "rec" THEN Raise(NoGetAttribute(volume))
    ELSE LET image_links == get(volume, "imageLinks", EmptyDict) IN
    IF image_links.t # "rec" THEN Raise(NoGetAttribute(image_links))
    ELSE Return(book_record(item, volume, image_links))

\* The book record of an item, or the AttributeError of the first .get on a
\* value that is no dict (item, volumeInfo, imageLinks in that order).
map_volume(item) ==
    IF item.t # "rec" THEN Raise(NoGetAttribute(item))
    ELSE LET volume == get(item, "volumeInfo", EmptyDict) IN
    IF volume.t # "rec" THEN Raise(NoGetAttribute(volume))
    ELSE LET image_links == get(volume, "imageLinks", EmptyDict) IN
    IF image_links.t # "rec" THEN Raise(NoGetAttribute(image_links))
    ELSE Return(book_record(item, volume, image_links))

\* [map_volume(it) for it in items]: the list of records, or the first
\* exception raised while building it
RECURSIVE map_all(_)
map_all(its) ==
    IF its = <<>> THEN Return(<<>>)
    ELSE LET head == map_volume(its[1]) IN
         IF head.raised THEN head
         ELSE LET rest == map_all(Tail(its)) IN
              IF rest.raised THEN rest ELSE Return(<<head.val>> \o rest.val)

\* [map_volume(it) for it in x] for a JSON value x: iterating null or a
\* number raises TypeError.  (Strings and dicts, which Python iterates by
\* character and by key, are not among the values drawn for "items".)
map_items(x) ==
    IF x.t = "list" THEN map_all(x.v) ELSE Raise(NotIterable(x))

----------------------------------------------------------------------------
(* Raw upstream values the environment can supply *)

ImageKeys == {"thumbnail", "smallThumbnail"}

VolKeys ==
    { "title", "authors", "imageLinks", "publishedDate", "description",
      "pageCount", "categories", "language", "infoLink",
      "canonicalVolumeLink", "previewLink", "publisher", "averageRating",
      "ratingsCount" }

\* all dicts whose keys are exactly S, key k holding a value of ValsOf[k]
RECURSIVE DictsOver(_, _)
DictsOver(S, ValsOf) ==
    IF S = {} THEN {EmptyFn}
    ELSE LET k == CHOOSE x \in S : TRUE IN
         { Ext(f, k, x) : f \in DictsOver(S \ {k}, ValsOf), x \in ValsOf[k] }

ImageVals ==
    [k \in ImageKeys |->
        IF k = "thumbnail" THEN {None, Str(""), Str("thumb")}
        ELSE {None, Str(""), Str("small")}]

ImageLinks ==
    { Dict(f) : f \in UNION { DictsOver(S, ImageVals) : S \in SUBSET ImageKeys } }

VolVals ==
    [k \in VolKeys |->
        CASE k \in {"authors", "categories"} ->
                {None, EmptyList, Lst(<<Str("a")>>), Lst(<<Str("a"), Str("b")>>)}
          [] k = "imageLinks" -> {None} \cup ImageLinks
          [] k = "infoLink" -> {None, Str(""), Str("info")}
          [] k = "canonicalVolumeLink" -> {None, Str(""), Str("canonical")}
          [] k \in {"pageCount", "ratingsCount", "averageRating"} -> {None, Num(0), Num(4)}
          [] OTHER -> {None, Str("text")}]

VolumeInfos ==
    { Dict(f) : f \in UNION { DictsOver(S, VolVals) :
                               S \in {T \in SUBSET VolKeys : Cardinality(T) <= MaxKeys} } }

ItemVals ==
    [k \in {"id", "volumeInfo"} |->
        IF k = "id" THEN {None, Str("vol1")}
        ELSE {None, Str("text")} \cup VolumeInfos]

\* raw items: dicts over the keys map_volume reads, and values that are no dict
RawRecords ==
    { Dict(f) : f \in UNION { DictsOver(S, ItemVals) : S \in SUBSET {"id", "volumeInfo"} } }

RawItems == RawRecords \cup {None, Str("text"), Num(4), EmptyList}

\* items the upstream puts in a response body
BodyItems ==
    { Dict([id |-> Str("vol1")]),
      Dict([id |-> Str("vol2"),
            volumeInfo |-> Dict([title |-> Str("text"),
                                 imageLinks |-> Dict([smallThumbnail |-> Str("small")])])]),
      Dict([id |-> Str("vol3"), volumeInfo |-> None]),
      Str("text") }

\* sequences over S of length at most n
RECURSIVE SeqsUpTo(_, _)
SeqsUpTo(S, n) ==
    IF n = 0 THEN {<<>>}
    ELSE LET shorter == SeqsUpTo(S, n - 1) IN
         shorter \cup { Append(x, e) : x \in {y \in shorter : Len(y) = n - 1}, e \in S }

\* a body whose text is not JSON, so that resp.json() raises
NotJson == [t |-> "invalid"]

BodyVals ==
    [k \in {"totalItems", "items"} |->
        IF k = "totalItems" THEN {None, Num(7)}
        ELSE {None} \cup { Lst(x) : x \in SeqsUpTo(BodyItems, MaxItems) }]

SearchBodies ==
    {NotJson, None, EmptyList}
    \cup { Dict(f) : f \in UNION { DictsOver(S, BodyVals) : S \in SUBSET {"totalItems", "items"} } }

\* bodies answered to the curated queries
RecBodies ==
    { NotJson, EmptyList,
      Dict([totalItems |-> Num(7),
            items |-> Lst(<<Dict([id |-> Str("vol1")])>>)]),
      Dict([items |-> Lst(<<Dict([id |-> Str("vol1")]), Str("text")>>)]) }

\* HTTP statuses requests.get can hand back without raising
Statuses == {200, 204, 300, 404, 500}

NetworkErrors == { [kind |-> "ConnectionError"], [kind |-> "Timeout"] }

Response(status, body) == [kind |-> "response", status |-> status, body |-> body]

\* what one outbound GET of search_books can come back with
SearchOutcomes ==
    NetworkErrors \cup { Response(st, b) : st \in Statuses, b \in SearchBodies }

\* what one outbound GET of recommendations can come back with: a body is
\* read only under status 200, the other statuses carry an error page
RecOutcomes ==
    NetworkErrors
    \cup { Response(StatusOk, b) : b \in RecBodies }
    \cup { Response(st, NotJson) : st \in {404, 500} }

\* query strings of GET /api/search: a parameter is missing, an integer, or
\* text that is no integer
Requests ==
    LET ReqVals == [k \in {"q", "startIndex", "maxResults"} |->
                       CASE k = "q" -> {Str(""), Str("tolkien")}
                         [] k = "startIndex" -> {Num(0 - 1), Num(0), Num(5), Str("x")}
                         [] k = "maxResults" -> {Num(0), Num(1), Num(40), Num(41)}]
    IN UNION { DictsOver(S, ReqVals) : S \in SUBSET {"q", "startIndex", "maxResults"} }

----------------------------------------------------------------------------
(* The outbound call *)

\* str(e) of the exception requests.get raises
NetworkErrorMsg(outcome) ==
    IF outcome.kind = "Timeout" THEN "Read timed out. (read timeout=10)"
    ELSE "Failed to establish a new connection"

\* resp.raise_for_status(): HTTPError for 4xx and 5xx, nothing otherwise
raise_for_status(status) ==
    IF 400 <= status /\ status < 500 THEN Raise("Client Error")
    ELSE IF 500 <= status /\ status < 600 THEN Raise("Server Error")
    ELSE Return(None)

\* resp.json()
json(body) ==
    IF body = NotJson THEN Raise("Expecting value: line 1 column 1 (char 0)")
    ELSE Return(body)

\* the record of an outbound requests.get
Get(params) == [url |-> GOOGLE_BOOKS_API, params |-> params, timeout |-> TIMEOUT]

----------------------------------------------------------------------------
(* GET /api/search *)

\* validation with maxResults declared ge=0 and no upper limit
Valid_unbounded(req) ==
    /\ "q" \in DOMAIN req
    /\ "startIndex" \in DOMAIN req =>
          /\ req["startIndex"].t = "num"
          /\ req["startIndex"].v >= StartIndexGe
    /\ "maxResults" \in DOMAIN req =>
          /\ req["maxResults"].t = "num"
          /\ req["maxResults"].v >= 0

\* FastAPI's validation of the declared parameters: q is required,
\* startIndex is an integer >= 0, maxResults an integer in 1..40
Valid(req) ==
    /\ "q" \in DOMAIN req
    /\ "startIndex" \in DOMAIN req =>
          /\ req["startIndex"].t = "num"
          /\ req["startIndex"].v >= StartIndexGe
    /\ "maxResults" \in DOMAIN req =>
          /\ req["maxResults"].t = "num"
          /\ req["maxResults"].v >= MaxResultsGe
          /\ req["maxResults"].v <= MaxResultsLe

\* the arguments search_books is called with: defaults for missing parameters
Args(req) ==
    [ q |-> req["q"].v,
      startIndex |-> IF "startIndex" \in DOMAIN req THEN req["startIndex"].v
                     ELSE StartIndexDefault,
      maxResults |-> IF "maxResults" \in DOMAIN req THEN req["maxResults"].v
                     ELSE MaxResultsDefault ]

\* params = {"q": q, "startIndex": startIndex, "maxResults": maxResults}
search_params(q, startIndex, maxResults) ==
    [q |-> q, startIndex |-> startIndex, maxResults |-> maxResults]

\* except Exception as e: return {"total": 0, "items": [], "query": q, "error": str(e)}
search_error(q, msg) ==
    [total |-> Num(0), items |-> <<>>, query |-> q, error |-> msg]

\* search_books reading data.get("totalItems") without the default 0
search_books_no_default(q, outcome) ==
    IF outcome.kind # "response" THEN search_error(q, NetworkErrorMsg(outcome))
    ELSE LET status == raise_for_status(outcome.status) IN
    IF status.raised THEN search_error(q, status.msg)
    ELSE LET parsed == json(outcome.body) IN
    IF parsed.raised THEN search_error(q, parsed.msg)
    ELSE LET data == parsed.val IN
    IF data.t # "rec" THEN search_error(q, NoGetAttribute(data))
    ELSE LET items == get(data, "items", EmptyList)
             mapped == map_items(items) IN
    IF mapped.raised THEN search_error(q, mapped.msg)
    ELSE [ total |-> get(data, "totalItems", None),
           items |-> mapped.val,
           query |-> q ]

\* the body of search_books once requests.get came back with outcome
search_books(q, outcome) ==
    IF outcome.kind # "response" THEN search_error(q, NetworkErrorMsg(outcome))
    ELSE LET status == raise_for_status(outcome.status) IN
    IF status.raised THEN search_error(q, status.msg)
    ELSE LET parsed == json(outcome.body) IN
    IF parsed.raised THEN search_error(q, parsed.msg)
    ELSE LET data == parsed.val IN
    IF data.t # "rec" THEN search_error(q, NoGetAttribute(data))
    ELSE LET items == get(data, "items", EmptyList)
             mapped == map_items(items) IN
    IF mapped.raised THEN search_error(q, mapped.msg)
    ELSE [ total |-> get(data, "totalItems", Num(0)),
           items |-> mapped.val,
           query |-> q ]

----------------------------------------------------------------------------
(* GET /api/recommendations *)

\* the section appended by the except branch
empty_section(s) == [title |-> s.title, q |-> s.q, items |-> <<>>]

\* the iteration with an except branch that assigns samples instead of
\* appending to it
recommendations_iter_assign(smpls, s, outcome) ==
    IF outcome.kind # "response" THEN <<empty_section(s)>>
    ELSE IF outcome.status # StatusOk THEN smpls
    ELSE LET parsed == json(outcome.body) IN
    IF parsed.raised THEN <<empty_section(s)>>
    ELSE LET payload == parsed.val IN
    IF payload.t # "rec" THEN <<empty_section(s)>>
    ELSE LET items == map_items(get(payload, "items", EmptyList)) IN
    IF items.raised THEN <<empty_section(s)>>
    ELSE Append(smpls, [title |-> s.title, q |-> s.q, items |-> items.val])

\* one iteration of the loop over suggestion_sets: samples after the
\* iteration for s whose requests.get came back with outcome
recommendations_iter(smpls, s, outcome) ==
    IF outcome.kind # "response" THEN Append(smpls, empty_section(s))
    ELSE IF outcome.status # StatusOk THEN smpls
    ELSE LET parsed == json(outcome.body) IN
    IF parsed.raised THEN Append(smpls, empty_section(s))
    ELSE LET payload == parsed.val IN
    IF payload.t # "rec" THEN Append(smpls, empty_section(s))
    ELSE LET items == map_items(get(payload, "items", EmptyList)) IN
    IF items.raised THEN Append(smpls, empty_section(s))
    ELSE Append(smpls, [title |-> s.title, q |-> s.q, items |-> items.val])

\* params={"q": s["q"], "maxResults": 6}
recommendation_params(s) == [q |-> s.q, maxResults |-> RecMaxResults]

----------------------------------------------------------------------------
(* State machine *)

NoResponse == [kind |-> "none"]

Init ==
    /\ pc = "idle"
    /\ op = "none"
    /\ input = None
    /\ calls = <<>>
    /\ outcomes = <<>>
    /\ samples = <<>>
    /\ idx = 1
    /\ response = NoResponse

\* map_volume called on a raw item
MapVolume ==
    /\ pc = "idle"
    /\ \E item \in RawItems :
         /\ input' = item
         /\ response' = map_volume(item)
    /\ op' = "map_volume"
    /\ pc' = "done"
    /\ UNCHANGED <<calls, outcomes, samples, idx>>

\* GET /api/search with parameters that pass validation: one outbound GET,
\* answered by the environment, and the handler's return value
SearchBooks ==
    /\ pc = "idle"
    /\ \E req \in Requests, outcome \in SearchOutcomes :
         /\ Valid(req)
         /\ LET a == Args(req) IN
              /\ input' = req
              /\ calls' = <<Get(search_params(a.q, a.startIndex, a.maxResults))>>
              /\ outcomes' = <<outcome>>
              /\ response' = [kind |-> "returned", body |-> search_books(a.q, outcome)]
    /\ op' = "search"
    /\ pc' = "done"
    /\ UNCHANGED <<samples, idx>>

\* GET /api/search with parameters that fail validation: FastAPI answers
\* with a validation error and search_books is never entered
SearchRejected ==
    /\ pc = "idle"
    /\ \E req \in Requests :
         /\ ~Valid(req)
         /\ input' = req
    /\ response' = [kind |-> "rejected"]
    /\ op' = "search"
    /\ pc' = "done"
    /\ UNCHANGED <<calls, outcomes, samples, idx>>

\* GET /api/recommendations: samples = []
RecommendationsStart ==
    /\ pc = "idle"
    /\ op' = "recommendations"
    /\ pc' = "loop"
    /\ samples' = <<>>
    /\ idx' = 1
    /\ UNCHANGED <<input, calls, outcomes, response>>

\* the iteration with an except branch that leaves the loop
RecommendationsIterBreak ==
    /\ pc = "loop"
    /\ idx <= Len(suggestion_sets)
    /\ \E outcome \in RecOutcomes :
         LET s == suggestion_sets[idx] IN
           /\ calls' = Append(calls, Get(recommendation_params(s)))
           /\ outcomes' = Append(outcomes, outcome)
           /\ samples' = recommendations_iter(samples, s, outcome)
           /\ idx' = IF outcome.kind # "response" THEN Len(suggestion_sets) + 1
                     ELSE idx + 1
    /\ UNCHANGED <<pc, op, input, response>>

\* one iteration of "for s in suggestion_sets"
RecommendationsIter ==
    /\ pc = "loop"
    /\ idx <= Len(suggestion_sets)
    /\ \E outcome \in RecOutcomes :
         LET s == suggestion_sets[idx] IN
           /\ calls' = Append(calls, Get(recommendation_params(s)))
           /\ outcomes' = Append(outcomes, outcome)
           /\ samples' = recommendations_iter(samples, s, outcome)
    /\ idx' = idx + 1
    /\ UNCHANGED <<pc, op, input, response>>

\* return {"sections": samples}
RecommendationsReturn ==
    /\ pc = "loop"
    /\ idx > Len(suggestion_sets)
    /\ response' = [kind |-> "returned", body |-> [sections |-> samples]]
    /\ pc' = "done"
    /\ UNCHANGED <<op, input, calls, outcomes, samples, idx>>

\* the response is sent; nothing of the request is kept
Finish ==
    /\ pc = "done"
    /\ pc' = "idle"
    /\ op' = "none"
    /\ input' = None
    /\ calls' = <<>>
    /\ outcomes' = <<>>
    /\ samples' = <<>>
    /\ idx' = 1
    /\ response' = NoResponse

Next ==
    \/ MapVolume
    \/ SearchBooks
    \/ SearchRejected
    \/ RecommendationsStart
    \/ RecommendationsIter
    \/ RecommendationsReturn
    \/ Finish

Spec == Init /\ [][Next]_vars

----------------------------------------------------------------------------
(* Vocabulary of the properties *)

RecsDone == op = "recommendations" /\ pc = "done"
SearchDone == op = "search" /\ pc = "done"
SearchEntered == SearchDone /\ response.kind = "returned"
MapVolumeDone == op = "map_volume" /\ pc = "done"

sections == response.body.sections

Pairs == 1..Len(suggestion_sets)

\* positions of the sections that carry the title and q of curated pair i
SectionsOf(i) ==
    { j \in 1..Len(sections) :
        /\ sections[j].title = suggestion_sets[i].title
        /\ sections[j].q = suggestion_sets[i].q }

Is2xx(status) == 200 <= status /\ status < 300

\* the call did not succeed: a network error or timeout, or a non-2xx status
CallFailed(outcome) ==
    \/ outcome.kind # "response"
    \/ ~Is2xx(outcome.status)

\* the items field is missing or a list whose entries all normalize
ItemsNormalize(body) ==
    \/ "items" \notin DOMAIN body.v
    \/ /\ body.v["items"].t = "list"
       /\ \A k \in 1..Len(body.v["items"].v) : ~map_volume(body.v["items"].v[k]).raised

\* the upstream items of a record body, the empty sequence if the field is missing
UpstreamItems(body) ==
    IF "items" \in DOMAIN body.v THEN body.v["items"].v ELSE <<>>

\* items is the normalization of the upstream items, entry by entry
NormalizedFrom(items, body) ==
    /\ Len(items) = Len(UpstreamItems(body))
    /\ \A k \in 1..Len(items) : Return(items[k]) = map_volume(UpstreamItems(body)[k])

\* HTTP 200 with a body that is a record whose items normalize
GoodOutcome(outcome) ==
    /\ outcome.kind = "response"
    /\ outcome.status = StatusOk
    /\ outcome.body.t = "rec"
    /\ ItemsNormalize(outcome.body)

BookKeys ==
    { "id", "title", "authors", "thumbnail", "publishedDate", "description",
      "pageCount", "categories", "language", "infoLink", "previewLink",
      "publisher", "rating", "ratingsCount" }

ScalarKeys == BookKeys \ {"id", "authors", "categories"}

----------------------------------------------------------------------------
(* Properties *)

\* C1: whatever the six upstream outcomes, recommendations() returns exactly
\* six sections, the i-th carrying the title and q of the i-th curated pair.
C1_SixSectionsInOrder ==
    RecsDone =>
        /\ Len(sections) = Len(suggestion_sets)
        /\ \A i \in 1..Len(sections) :
              /\ i \in Pairs
              /\ sections[i].title = suggestion_sets[i].title
              /\ sections[i].q = suggestion_sets[i].q

\* C2: whenever the call for a curated pair does not succeed (network error,
\* timeout or non-2xx status), the output still holds a section with that
\* pair's title and q and with empty items.
C2_FailedPairKeepsEmptySection ==
    RecsDone =>
        \A i \in Pairs :
            CallFailed(outcomes[i]) =>
                \E j \in SectionsOf(i) : sections[j].items = <<>>

\* the outbound call of search failed in one of the ways the contract lists
SearchFailure(outcome) ==
    \/ CallFailed(outcome)
    \/ outcome.body = NotJson
    \/ outcome.body.t # "rec"
    \/ ~ItemsNormalize(outcome.body)

\* C3: on any failure of the outbound call (network error, timeout, non-2xx
\* status, unparseable or non-record body, an item that does not normalize)
\* search returns total 0, no items, the input query and a non-empty error.
C3_FailureGivesDegradedResult ==
    (SearchEntered /\ SearchFailure(outcomes[1])) =>
        /\ DOMAIN response.body = {"total", "items", "query", "error"}
        /\ response.body.total = Num(0)
        /\ response.body.items = <<>>
        /\ response.body.query = Args(input).q
        /\ response.body.error # ""

\* C4: a pair whose own call returned 200 with a valid body has exactly one
\* section, whose items are the normalization of that body's items in order,
\* whatever the outcomes of the calls for the other pairs.
C4_GoodPairUnaffectedByOthers ==
    RecsDone =>
        \A i \in Pairs :
            /\ Cardinality(SectionsOf(i)) <= 1
            /\ GoodOutcome(outcomes[i]) =>
                  /\ Cardinality(SectionsOf(i)) = 1
                  /\ \A j \in SectionsOf(i) :
                        NormalizedFrom(sections[j].items, outcomes[i].body)

C4_Witness ==
    /\ RecsDone
    /\ \E i, k, m \in Pairs :
          /\ k < i /\ i < m
          /\ GoodOutcome(outcomes[i])
          /\ UpstreamItems(outcomes[i].body) # <<>>
          /\ outcomes[k].kind # "response"
          /\ outcomes[m].kind = "response" /\ outcomes[m].status # StatusOk

\* the result search gives for a record body: total, items, query, no error
SearchSuccessResult ==
    /\ DOMAIN response.body = {"total", "items", "query"}
    /\ response.body.total = get(outcomes[1].body, "totalItems", Num(0))
    /\ "items" \in DOMAIN outcomes[1].body.v => outcomes[1].body.v["items"].t = "list"
    /\ NormalizedFrom(response.body.items, outcomes[1].body)
    /\ response.body.query = Args(input).q

\* C5 as stated: a 2xx answer with a record body gives total = totalItems (0
\* if missing), items = the normalized upstream items in order, the input
\* query and no error field.
C5_RecordBodyGivesSuccess ==
    ( /\ SearchEntered
      /\ outcomes[1].kind = "response"
      /\ Is2xx(outcomes[1].status)
      /\ outcomes[1].body.t = "rec" ) => SearchSuccessResult

\* C5: a 2xx answer with a record body whose items field is missing or is a
\* sequence of entries that all normalize gives total = totalItems (0 if
\* missing), items = the normalized upstream items in order, the input query
\* and no error field.
C5_NormalizableBodyGivesSuccess ==
    ( /\ SearchEntered
      /\ outcomes[1].kind = "response"
      /\ Is2xx(outcomes[1].status)
      /\ outcomes[1].body.t = "rec"
      /\ ItemsNormalize(outcomes[1].body) ) => SearchSuccessResult

C5_Witness ==
    /\ SearchEntered
    /\ outcomes[1].kind = "response"
    /\ Is2xx(outcomes[1].status)
    /\ outcomes[1].body.t = "rec"
    /\ ItemsNormalize(outcomes[1].body)
    /\ "totalItems" \notin DOMAIN outcomes[1].body.v
    /\ Len(UpstreamItems(outcomes[1].body)) = 2
    /\ response.body.total = Num(0)

\* C6: maxResults 1 and 40 are accepted, maxResults 0 and 41 and a negative
\* startIndex are rejected; a rejected request makes no outbound call, and
\* every outbound call of search has startIndex >= 0 and 1 <= maxResults <= 40.
C6_BoundsCheckedBeforeCall ==
    SearchDone =>
        /\ ( /\ "q" \in DOMAIN input
             /\ "startIndex" \notin DOMAIN input
             /\ "maxResults" \in DOMAIN input
             /\ input["maxResults"] \in {Num(1), Num(40)} )
              => (response.kind = "returned" /\ Len(calls) = 1)
        /\ ( \/ ("maxResults" \in DOMAIN input /\ input["maxResults"] \in {Num(0), Num(41)})
             \/ ( /\ "startIndex" \in DOMAIN input
                  /\ input["startIndex"].t = "num"
                  /\ input["startIndex"].v < 0 ) )
              => response.kind = "rejected"
        /\ response.kind = "rejected" => calls = <<>>
        /\ \A c \in 1..Len(calls) :
              /\ calls[c].params.startIndex >= 0
              /\ calls[c].params.maxResults >= 1
              /\ calls[c].params.maxResults <= 40

C6_Witness ==
    /\ SearchDone
    /\ "q" \in DOMAIN input
    /\ "maxResults" \in DOMAIN input
    /\ input["maxResults"] = Num(41)
    /\ "startIndex" \in DOMAIN input
    /\ input["startIndex"] = Num(0)
    /\ response.kind = "rejected"

\* C7: for every raw record, whatever fields are present and whatever values
\* they hold (null included), map_volume returns a record with exactly the 14
\* keys, in which authors and categories are sequences, never null.
C7_TotalRecordWithSequences ==
    (MapVolumeDone /\ input.t = "rec") =>
        /\ ~response.raised
        /\ DOMAIN response.val = BookKeys
        /\ response.val.authors.t = "list"
        /\ response.val.categories.t = "list"

\* C8: for a raw record without volumeInfo, map_volume returns a record whose
\* scalar fields other than id are absent, whose id is the raw id (absent if
\* missing) and whose authors and categories are empty; for a raw record whose
\* volumeInfo has no imageLinks it returns a record as well.
C8_MissingSubRecordsAreEmpty ==
    (MapVolumeDone /\ input.t = "rec") =>
        /\ "volumeInfo" \notin DOMAIN input.v =>
              /\ ~response.raised
              /\ DOMAIN response.val = BookKeys
              /\ \A k \in ScalarKeys : response.val[k] = None
              /\ response.val.id = (IF "id" \in DOMAIN input.v THEN input.v["id"] ELSE None)
              /\ response.val.authors = EmptyList
              /\ response.val.categories = EmptyList
        /\ ( /\ "volumeInfo" \in DOMAIN input.v
             /\ input.v["volumeInfo"].t = "rec"
             /\ "imageLinks" \notin DOMAIN input.v["volumeInfo"].v )
              => (~response.raised /\ response.val.thumbnail = None)

C8_Witness ==
    /\ MapVolumeDone
    /\ input = Dict([id |-> Str("vol1")])
    /\ ~response.raised
    /\ response.val.id = Str("vol1")

\* the imageLinks record of the raw item map_volume was given
InputImageLinks == input.v["volumeInfo"].v["imageLinks"].v

HasImageLinks ==
    /\ MapVolumeDone
    /\ input.t = "rec"
    /\ "volumeInfo" \in DOMAIN input.v
    /\ input.v["volumeInfo"].t = "rec"
    /\ "imageLinks" \in DOMAIN input.v["volumeInfo"].v
    /\ input.v["volumeInfo"].v["imageLinks"].t = "rec"

\* C9 as stated: a present imageLinks.thumbnail is the output thumbnail
\* whatever its value; with only smallThumbnail present the output is
\* smallThumbnail; with neither the output is absent.
C9_ThumbnailWhateverItsValue ==
    HasImageLinks =>
        /\ ~response.raised
        /\ "thumbnail" \in DOMAIN InputImageLinks =>
              response.val.thumbnail = InputImageLinks["thumbnail"]
        /\ ("thumbnail" \notin DOMAIN InputImageLinks /\ "smallThumbnail" \in DOMAIN InputImageLinks) =>
              response.val.thumbnail = InputImageLinks["smallThumbnail"]
        /\ ("thumbnail" \notin DOMAIN InputImageLinks /\ "smallThumbnail" \notin DOMAIN InputImageLinks) =>
              response.val.thumbnail = None

\* C9: a present imageLinks.thumbnail that is neither null nor empty is the
\* output thumbnail, whether or not smallThumbnail is present; when thumbnail
\* is missing, null or empty the output is smallThumbnail if that is present
\* and absent otherwise.
C9_ThumbnailPrecedence ==
    HasImageLinks =>
        /\ ~response.raised
        /\ ("thumbnail" \in DOMAIN InputImageLinks /\ Truthy(InputImageLinks["thumbnail"])) =>
              response.val.thumbnail = InputImageLinks["thumbnail"]
        /\ ( /\ "thumbnail" \in DOMAIN InputImageLinks => ~Truthy(InputImageLinks["thumbnail"])
             /\ "smallThumbnail" \in DOMAIN InputImageLinks ) =>
              response.val.thumbnail = InputImageLinks["smallThumbnail"]
        /\ ( /\ "thumbnail" \in DOMAIN InputImageLinks => ~Truthy(InputImageLinks["thumbnail"])
             /\ "smallThumbnail" \notin DOMAIN InputImageLinks ) =>
              response.val.thumbnail = None

C9_Witness ==
    /\ HasImageLinks
    /\ InputImageLinks = [thumbnail |-> Str("thumb"), smallThumbnail |-> Str("small")]
    /\ response.val.thumbnail = Str("thumb")

\* C10: a run of recommendations() issues one outbound GET per curated pair,
\* in list order, each with {q: the pair's query, maxResults: 6}; after k
\* iterations exactly the first k calls have been made whatever their
\* outcomes, the loop can always take its next step, and the run ends with a
\* response after exactly six calls.
C10_SixCallsInOrder ==
    op = "recommendations" =>
        /\ idx \in 1..(Len(suggestion_sets) + 1)
        /\ Len(calls) = idx - 1
        /\ Len(outcomes) = idx - 1
        /\ \A k \in 1..Len(calls) :
              calls[k] = [ url |-> GOOGLE_BOOKS_API,
                           params |-> [q |-> suggestion_sets[k].q, maxResults |-> 6],
                           timeout |-> 10 ]
        /\ pc = "loop" => ENABLED (RecommendationsIter \/ RecommendationsReturn)
        /\ pc = "done" =>
              /\ Len(calls) = 6
              /\ response.kind = "returned"
              /\ "sections" \in DOMAIN response.body

C10_Witness ==
    /\ RecsDone
    /\ Len(calls) = 6
    /\ outcomes[1].kind = "ConnectionError"
    /\ outcomes[2].kind = "response" /\ outcomes[2].status = 500
    /\ outcomes[3].kind = "response" /\ outcomes[3].body = NotJson /\ outcomes[3].status = StatusOk

====
